---- MODULE Spec2Model ----
(***************************************************************************)
(* A model of server/routes.ts of the kuaishou-downloader: the redirect    *)
(* following fetcher (fetchWithRedirects), the extraction cascade          *)
(* (extractVideoInfoFromHtml), and the two Express handlers                *)
(* POST /api/fetch-video and GET /api/download.                            *)
(*                                                                         *)
(* Text is modelled as sequences of one-character strings, so that the     *)
(* string operations of the code (includes, startsWith, replace) are       *)
(* computed on characters.  A page body is modelled as a sequence of       *)
(* markup fragments ("items"); a regular expression of the code is         *)
(* modelled by the predicate saying which fragments it matches, and the    *)
(* lastIndex of a global expression is a position in the item sequence.    *)
(***************************************************************************)
EXTENDS Integers, Sequences, FiniteSets, TLC

(***************************************************************************)
(* Bounds of the model.                                                    *)
(***************************************************************************)
\* longest page body, in items
MaxItems == 2
\* cap of the ghost counter of RegExp.exec calls made by one fallback step
MaxExec == 12

(***************************************************************************)
(* Characters and string helpers.                                          *)
(***************************************************************************)
BS == "\\"

Http == <<"h", "t", "t", "p", ":", "/", "/">>
Https == <<"h", "t", "t", "p", "s", ":", "/", "/">>
DotMp4 == <<".", "m", "p", "4">>
DotM3u8 == <<".", "m", "3", "u", "8">>
DotM4a == <<".", "m", "4", "a">>
DotMp3 == <<".", "m", "p", "3">>
DotAac == <<".", "a", "a", "c">>
DotJpg == <<".", "j", "p", "g">>
WordVideo == <<"v", "i", "d", "e", "o">>
WordCover == <<"c", "o", "v", "e", "r">>
WordPoster == <<"p", "o", "s", "t", "e", "r">>
WordThumb == <<"t", "h", "u", "m", "b">>
EscSlash == <<BS, "u", "0", "0", "2", "F">>

\* s.startsWith(p)
StartsWith(s, p) == Len(s) >= Len(p) /\ SubSeq(s, 1, Len(p)) = p

\* the 1-based positions at which p occurs in s
Occurrences(s, p) == {i \in 1..(Len(s) - Len(p) + 1) : SubSeq(s, i, i + Len(p) - 1) = p}

\* s.includes(p)
Includes(s, p) == Occurrences(s, p) # {}

\* s.replace(/\\u002F/g, "/"): left to right, non-overlapping
RECURSIVE ReplaceEscSlash(_)
ReplaceEscSlash(s) ==
    IF s = <<>> THEN <<>>
    ELSE IF StartsWith(s, EscSlash)
         THEN <<"/">> \o ReplaceEscSlash(SubSeq(s, Len(EscSlash) + 1, Len(s)))
         ELSE <<Head(s)>> \o ReplaceEscSlash(Tail(s))

\* s.replace(/\\/g, "")
RECURSIVE StripBackslashes(_)
StripBackslashes(s) ==
    IF s = <<>> THEN <<>>
    ELSE IF Head(s) = BS THEN StripBackslashes(Tail(s))
         ELSE <<Head(s)>> \o StripBackslashes(Tail(s))

\* a mutant of Unescape: the escaped slashes are replaced, the backslashes kept
UnescapeKeepBackslashes(s) == ReplaceEscSlash(s)

\* s.replace(/\\u002F/g, "/").replace(/\\/g, "")
Unescape(s) == StripBackslashes(ReplaceEscSlash(s))

\* the case folding of a /i expression, on the letters the model uses
LowerChar(c) ==
    CASE c = "M" -> "m"
      [] c = "P" -> "p"
      [] c = "V" -> "v"
      [] OTHER -> c

Lower(s) == [i \in 1..Len(s) |-> LowerChar(s[i])]

IsSpace(c) == c = " "

\* s.trim()
RECURSIVE TrimLeft(_)
TrimLeft(s) == IF s # <<>> /\ IsSpace(Head(s)) THEN TrimLeft(Tail(s)) ELSE s

RECURSIVE TrimRight(_)
TrimRight(s) ==
    IF s # <<>> /\ IsSpace(s[Len(s)]) THEN TrimRight(SubSeq(s, 1, Len(s) - 1)) ELSE s

Trim(s) == TrimRight(TrimLeft(s))

(***************************************************************************)
(* JavaScript values.  A variable of the cascade is declared a string but  *)
(* JSON.parse can put any JSON value into it.                              *)
(*   t = "str": the string s;  "num": a non-zero number;  "zero": 0;       *)
(*   "arr", "obj": an array, an object;  "null";  "undef".                 *)
(***************************************************************************)
Str(s) == [t |-> "str", s |-> s]
Undef == [t |-> "undef", s |-> <<>>]
JsNull == [t |-> "null", s |-> <<>>]
JsNum == [t |-> "num", s |-> <<>>]
JsZero == [t |-> "zero", s |-> <<>>]
JsArr == [t |-> "arr", s |-> <<>>]
JsObj == [t |-> "obj", s |-> <<>>]
EmptyStr == Str(<<>>)

IsString(v) == v.t = "str"

\* ToBoolean(v)
Truthy(v) ==
    CASE v.t = "str" -> v.s # <<>>
      [] v.t \in {"num", "arr", "obj"} -> TRUE
      [] OTHER -> FALSE

\* a || b
JsOr(a, b) == IF Truthy(a) THEN a ELSE b

(***************************************************************************)
(* Page bodies.  An item is one fragment of markup:                        *)
(*   kind "title"   <title>val</title>                                     *)
(*   kind "meta"    a meta tag, property prop and content val; rev says    *)
(*                  that the content attribute comes before the property   *)
(*   kind "by"      the text  by @val                                      *)
(*   kind "pair"    "key":"val" (key given case-folded)                    *)
(*   kind "quoted"  the quoted literal "val"                               *)
(*   kind "json"    a script block of type application/json or             *)
(*                  application/ld+json; json is what JSON.parse makes of  *)
(*                  its text                                               *)
(* A val holds no quote, no angle bracket and no line break; only a title  *)
(* holds blanks.                                                           *)
(***************************************************************************)
\* JSON.parse of a block: it throws, or yields null, a primitive, or an object
NoJson == [kind |-> "none", contentUrl |-> Undef, thumbnailUrl |-> Undef,
           name |-> Undef, authorName |-> Undef]
JsonThrow == [NoJson EXCEPT !.kind = "throw"]
JsonNull == [NoJson EXCEPT !.kind = "null"]
JsonPrim == [NoJson EXCEPT !.kind = "prim"]
JsonObject(c, th, n, a) ==
    [kind |-> "obj", contentUrl |-> c, thumbnailUrl |-> th, name |-> n, authorName |-> a]

Item(kind, val) ==
    [kind |-> kind, prop |-> "", key |-> <<>>, rev |-> FALSE, val |-> val, json |-> NoJson]
Title(val) == Item("title", val)
Meta(prop, val) == [Item("meta", val) EXCEPT !.prop = prop]
MetaRev(prop, val) == [Item("meta", val) EXCEPT !.prop = prop, !.rev = TRUE]
By(val) == Item("by", val)
Pair(key, val) == [Item("pair", val) EXCEPT !.key = key]
Quoted(val) == Item("quoted", val)
JsonBlock(j) == [Item("json", <<>>) EXCEPT !.json = j]

\* the fragments whose val stands between quotes in the body text
QuotedKinds == {"meta", "pair", "quoted"}

Min(S) == CHOOSE x \in S : \A y \in S : x <= y

EndsWith(s, p) == Len(s) >= Len(p) /\ SubSeq(s, Len(s) - Len(p) + 1, Len(s)) = p

\* the length of the scheme prefix https?:// of v, 0 if it has none
SchemeLen(v) ==
    IF StartsWith(v, Https) THEN Len(Https)
    ELSE IF StartsWith(v, Http) THEN Len(Http) ELSE 0

\* /["'](https?:\/\/[^"'\s]+EXT[^"'\s]*?)["']/gi on one fragment: a quoted
\* literal with a scheme, at least one character, then the extension
QuotedUrlWith(it, ext) ==
    /\ it.kind \in QuotedKinds
    /\ LET v == Lower(it.val)
       IN /\ SchemeLen(v) > 0
          /\ \E j \in Occurrences(v, ext) : j >= SchemeLen(v) + 2

\* /["'](https?:\/\/[^"'\s]*video[^"'\s]+\.mp4[^"'\s]*?)["']/gi
QuotedVideoMp4(it) ==
    /\ it.kind \in QuotedKinds
    /\ LET v == Lower(it.val)
       IN /\ SchemeLen(v) > 0
          /\ \E i \in Occurrences(v, WordVideo), j \in Occurrences(v, DotMp4) :
                /\ i >= SchemeLen(v) + 1
                /\ j >= i + Len(WordVideo) + 1

ImgWords == {WordCover, WordPoster, WordThumb}
ImgExts == {DotJpg, <<".", "j", "p", "e", "g">>, <<".", "p", "n", "g">>,
            <<".", "w", "e", "b", "p">>}

\* /["'](https?:\/\/[^"'\s]+(?:cover|poster|thumb)[^"'\s]*\.(?:jpg|jpeg|png|webp)[^"'\s]*?)["']/gi
QuotedImage(it) ==
    /\ it.kind \in QuotedKinds
    /\ LET v == Lower(it.val)
       IN /\ SchemeLen(v) > 0
          /\ \E w \in ImgWords, e \in ImgExts :
                \E i \in Occurrences(v, w), j \in Occurrences(v, e) :
                    /\ i >= SchemeLen(v) + 2
                    /\ j >= i + Len(w)

\* the keys of the key-style expressions, case-folded
KeyVideoUrl == <<"v", "i", "d", "e", "o", "u", "r", "l">>
KeyPlayUrl == <<"p", "l", "a", "y", "u", "r", "l">>
KeySrcNoMark == <<"s", "r", "c", "n", "o", "m", "a", "r", "k">>
KeyHlsPlayUrl == <<"h", "l", "s">> \o KeyPlayUrl
KeyAudioUrl == <<"a", "u", "d", "i", "o", "u", "r", "l">>
KeySoundTrack == <<"s", "o", "u", "n", "d", "t", "r", "a", "c", "k">>
KeyCoverUrl == <<"c", "o", "v", "e", "r", "u", "r", "l">>
KeyPosterUrl == <<"p", "o", "s", "t", "e", "r", "u", "r", "l">>
KeyAuthor == <<"a", "u", "t", "h", "o", "r">>
KeyUserName == <<"u", "s", "e", "r", "n", "a", "m", "e">>
KeyName == <<"n", "a", "m", "e">>

\* /KEY["']?\s*[:=]\s*["']([^"']+)["']/i on a "key":"val" fragment: the
\* expression is not anchored on the left, so the key need only end with KEY
KeyStyle(it, key) == it.kind = "pair" /\ EndsWith(it.key, key) /\ it.val # <<>>

\* the expressions of the four fallback scans; g is the global flag
Re(name, g) == [re |-> name, g |-> g]
audioUrlPatterns ==
    <<Re("m4a", TRUE), Re("mp3", TRUE), Re("aac", TRUE), Re("audioUrl", FALSE),
      Re("soundTrack", FALSE)>>
videoUrlPatterns ==
    <<Re("mp4", TRUE), Re("videoMp4", TRUE), Re("videoUrl", FALSE), Re("playUrl", FALSE),
      Re("srcNoMark", FALSE)>>
m3u8Patterns == <<Re("m3u8", TRUE), Re("hlsPlayUrl", FALSE)>>
imgPatterns == <<Re("img", TRUE), Re("coverUrl", FALSE), Re("posterUrl", FALSE)>>

\* /<script[^>]*type=["']application\/(?:ld\+)?json["'][^>]*>([\s\S]*?)<\/script>/gi
IsJsonScript(it) == it.kind = "json"

\* does the expression match the fragment (its capture group 1 is then it.val)
ReMatches(re, it) ==
    CASE re = "m4a" -> QuotedUrlWith(it, DotM4a)
      [] re = "mp3" -> QuotedUrlWith(it, DotMp3)
      [] re = "aac" -> QuotedUrlWith(it, DotAac)
      [] re = "audioUrl" -> KeyStyle(it, KeyAudioUrl)
      [] re = "soundTrack" -> KeyStyle(it, KeySoundTrack)
      [] re = "mp4" -> QuotedUrlWith(it, DotMp4)
      [] re = "videoMp4" -> QuotedVideoMp4(it)
      [] re = "videoUrl" -> KeyStyle(it, KeyVideoUrl)
      [] re = "playUrl" -> KeyStyle(it, KeyPlayUrl)
      [] re = "srcNoMark" -> KeyStyle(it, KeySrcNoMark)
      [] re = "m3u8" -> QuotedUrlWith(it, DotM3u8)
      [] re = "hlsPlayUrl" -> KeyStyle(it, KeyHlsPlayUrl)
      [] re = "img" -> QuotedImage(it)
      [] re = "coverUrl" -> KeyStyle(it, KeyCoverUrl)
      [] re = "posterUrl" -> KeyStyle(it, KeyPosterUrl)
      [] re = "jsonScript" -> IsJsonScript(it)
      [] OTHER -> FALSE

\* pattern.exec(html) with pattern.lastIndex = last: a global expression
\* searches from lastIndex and moves it behind the match (back to 0 when it
\* finds none); an expression without the flag always searches from the start
\* and leaves lastIndex alone
Exec(pat, html, last) ==
    LET from == IF pat.g THEN last ELSE 0
        idxs == {i \in (from + 1)..Len(html) : ReMatches(pat.re, html[i])}
    IN IF idxs = {} THEN [found |-> FALSE, idx |-> 0, last |-> IF pat.g THEN 0 ELSE last]
       ELSE [found |-> TRUE, idx |-> Min(idxs),
             last |-> IF pat.g THEN Min(idxs) ELSE last]

\* html.match(re) of an expression without the global flag: the first
\* fragment P holds of, 0 when there is none
FirstMatch(html, P(_)) ==
    LET idxs == {i \in 1..Len(html) : P(html[i])}
    IN IF idxs = {} THEN 0 ELSE Min(idxs)

(***************************************************************************)
(* Steps 1 to 4 of the cascade: <title>, og:title, og:image, og:video and  *)
(* the author expressions.                                                 *)
(***************************************************************************)
\* the two characters of the platform name in the title suffix
Kuai == "<kuai>"
Shou == "<shou>"

RECURSIVE SkipSpaces(_, _)
SkipSpaces(s, i) == IF i <= Len(s) /\ IsSpace(s[i]) THEN SkipSpaces(s, i + 1) ELSE i

\* does /\s*[-|]\s*<kuai><shou>/ match s at position i
SuffixAt(s, i) ==
    LET j == SkipSpaces(s, i)
        k == SkipSpaces(s, j + 1)
    IN /\ j <= Len(s)
       /\ s[j] \in {"-", "|"}
       /\ k + 1 <= Len(s)
       /\ s[k] = Kuai
       /\ s[k + 1] = Shou

\* s.replace(/\s*[-|]\s*<kuai><shou>.*$/i, "").trim()
StripTitle(s) ==
    LET starts == {i \in 1..Len(s) : SuffixAt(s, i)}
    IN IF starts = {} THEN Trim(s) ELSE Trim(SubSeq(s, 1, Min(starts) - 1))

IsTitleTag(it) == it.kind = "title" /\ it.val # <<>>

\* html.match(A) || html.match(B) of a meta tag expression: A wants the
\* property attribute before the content attribute, B the content first.
\* The index of the matched fragment, 0 when neither matches.
OgMatch(html, props) ==
    LET A(it) == it.kind = "meta" /\ it.prop \in props /\ ~it.rev /\ it.val # <<>>
        B(it) == it.kind = "meta" /\ it.prop \in props /\ it.rev /\ it.val # <<>>
    IN IF FirstMatch(html, A) # 0 THEN FirstMatch(html, A) ELSE FirstMatch(html, B)

\* the "key":"val" pairs that the text of a fragment shows to the author
\* expressions: a pair fragment, and the string members of a JSON object
TextPairs(it) ==
    IF it.kind = "pair" THEN <<[key |-> it.key, val |-> it.val]>>
    ELSE IF it.kind = "json" /\ it.json.kind = "obj"
    THEN (IF IsString(it.json.name) /\ it.json.name.s # <<>>
          THEN <<[key |-> KeyName, val |-> it.json.name.s]>> ELSE <<>>)
         \o (IF IsString(it.json.authorName) /\ it.json.authorName.s # <<>>
             THEN <<[key |-> KeyName, val |-> it.json.authorName.s]>> ELSE <<>>)
    ELSE <<>>

\* /"KEY"[:\s]*"([^"]+)"/i on one fragment: the captured text, <<>> if none
QuotedKeyCapture(it, key) ==
    LET ps == TextPairs(it)
        hit == {i \in 1..Len(ps) : ps[i].key = key /\ ps[i].val # <<>>}
    IN IF hit = {} THEN <<>> ELSE ps[Min(hit)].val

\* the author expressions, in the order of the code
AuthorMatch(html) ==
    LET IsBy(it) == it.kind = "by" /\ it.val # <<>>
        HasAuthor(it) == QuotedKeyCapture(it, KeyAuthor) # <<>>
        HasUserName(it) == QuotedKeyCapture(it, KeyUserName) # <<>>
        HasName(it) == QuotedKeyCapture(it, KeyName) # <<>>
    IN IF FirstMatch(html, IsBy) # 0 THEN html[FirstMatch(html, IsBy)].val
       ELSE IF FirstMatch(html, HasAuthor) # 0
       THEN QuotedKeyCapture(html[FirstMatch(html, HasAuthor)], KeyAuthor)
       ELSE IF FirstMatch(html, HasUserName) # 0
       THEN QuotedKeyCapture(html[FirstMatch(html, HasUserName)], KeyUserName)
       ELSE IF FirstMatch(html, HasName) # 0
       THEN QuotedKeyCapture(html[FirstMatch(html, HasName)], KeyName)
       ELSE <<>>

\* a mutant of TitleStep: the <title> tag is preferred to og:title
TitleStepTagFirst(html) ==
    LET t == FirstMatch(html, IsTitleTag)
        ot == OgMatch(html, {"og:title"})
    IN IF t # 0 THEN StripTitle(html[t].val)
       ELSE IF ot # 0 THEN Trim(html[ot].val) ELSE <<>>

\* lines 63 to 72: the title after the <title> step and the og:title step
TitleStep(html) ==
    LET t == FirstMatch(html, IsTitleTag)
        ot == OgMatch(html, {"og:title"})
        title0 == IF t # 0 THEN StripTitle(html[t].val) ELSE <<>>
    IN IF ot # 0 THEN Trim(html[ot].val) ELSE title0

\* the four fields after steps 1 to 4
MetaFields(html) ==
    LET oi == OgMatch(html, {"og:image"})
        ov == OgMatch(html, {"og:video", "og:video:url"})
    IN [title |-> Str(TitleStep(html)),
        thumbnail |-> Str(IF oi # 0 THEN html[oi].val ELSE <<>>),
        videoUrl |-> Str(IF ov # 0 THEN html[ov].val ELSE <<>>),
        author |-> Str(Trim(AuthorMatch(html)))]

(***************************************************************************)
(* Step 5 of the cascade: one embedded JSON block.                         *)
(***************************************************************************)
Fields(ti, au, th, v) == [title |-> ti, author |-> au, thumbnail |-> th, videoUrl |-> v]

\* a mutant of JsonTryBody: a block overwrites the fields it has a value for
JsonTryBodyOverwrites(f, j) ==
    IF j.kind \in {"throw", "null"} THEN [thrown |-> TRUE, f |-> f]
    ELSE [thrown |-> FALSE,
          f |-> Fields(IF Truthy(j.name) THEN j.name ELSE f.title,
                       IF Truthy(j.authorName) THEN j.authorName ELSE f.author,
                       IF Truthy(j.thumbnailUrl) THEN j.thumbnailUrl ELSE f.thumbnail,
                       IF Truthy(j.contentUrl) THEN j.contentUrl ELSE f.videoUrl)]

\* the body of the inner try: JSON.parse, then the four gap-filling
\* assignments.  thrown says that the body ended by an exception: JSON.parse
\* threw, or json is null and reading json.contentUrl threw.
JsonTryBody(f, j) ==
    IF j.kind \in {"throw", "null"} THEN [thrown |-> TRUE, f |-> f]
    ELSE [thrown |-> FALSE,
          f |-> Fields(IF Truthy(j.name) THEN JsOr(f.title, j.name) ELSE f.title,
                       IF Truthy(j.authorName) THEN JsOr(f.author, j.authorName)
                       ELSE f.author,
                       IF Truthy(j.thumbnailUrl) THEN JsOr(f.thumbnail, j.thumbnailUrl)
                       ELSE f.thumbnail,
                       IF Truthy(j.contentUrl) THEN JsOr(f.videoUrl, j.contentUrl)
                       ELSE f.videoUrl)]

\* a mutant of InnerCatch: the exception of a block is not swallowed
InnerCatchRethrows(r) == r

\* catch (e) { }: the exception of a block is swallowed
InnerCatch(r) == [r EXCEPT !.thrown = FALSE]

(***************************************************************************)
(* Steps 6 to 9: the fallback scans.                                       *)
(***************************************************************************)
ScanSteps == {"audio", "video", "m3u8", "img"}

ScanPatterns(step) ==
    CASE step = "audio" -> audioUrlPatterns
      [] step = "video" -> videoUrlPatterns
      [] step = "m3u8" -> m3u8Patterns
      [] step = "img" -> imgPatterns

\* a mutant of AcceptVideo: the poster/cover filter is missing
AcceptVideoNoFilter(foundUrl) == foundUrl # <<>> /\ Includes(foundUrl, DotMp4)

\* foundUrl && foundUrl.includes(".mp4") && !foundUrl.includes("poster")
\*   && !foundUrl.includes("cover")
AcceptVideo(foundUrl) ==
    /\ foundUrl # <<>>
    /\ Includes(foundUrl, DotMp4)
    /\ ~Includes(foundUrl, WordPoster)
    /\ ~Includes(foundUrl, WordCover)

\* the guards  if (!videoUrl)  and  if (!thumbnail)  in front of the scans
AfterM3u8(th) == IF ~Truthy(th) THEN "img" ELSE "post"
AfterVideo(v, th) == IF ~Truthy(v) THEN "m3u8" ELSE AfterM3u8(th)
AfterAudio(v, th) == IF ~Truthy(v) THEN "video" ELSE AfterVideo(v, th)
AfterStep(step, v, th) ==
    CASE step = "audio" -> AfterAudio(v, th)
      [] step = "video" -> AfterVideo(v, th)
      [] step = "m3u8" -> AfterM3u8(th)
      [] step = "img" -> "post"

(***************************************************************************)
(* Post-processing and the terminal rule.                                  *)
(***************************************************************************)
DefaultTitle == Str(<<"Kuaishou Video">>)
DefaultAuthor == Str(<<"Unknown">>)

NoResult ==
    [kind |-> "pending", title |-> Undef, author |-> Undef, thumbnail |-> Undef,
     videoUrl |-> Undef, audioUrl |-> Undef]
ResultNull == [NoResult EXCEPT !.kind = "null"]
ResultThrow == [NoResult EXCEPT !.kind = "throw"]

\* a mutant of PostTryBody: the terminal rule is applied to the video URL as
\* matched, before the unescaping
PostTryBodyEarlyRule(f, audio) ==
    IF ~Truthy(f.videoUrl) THEN ResultNull
    ELSE IF ~IsString(f.videoUrl) THEN ResultThrow
    ELSE IF Truthy(f.thumbnail) /\ ~IsString(f.thumbnail) THEN ResultThrow
    ELSE [kind |-> "descriptor",
          title |-> JsOr(f.title, DefaultTitle),
          author |-> JsOr(f.author, DefaultAuthor),
          thumbnail |-> IF Truthy(f.thumbnail) THEN Str(Unescape(f.thumbnail.s))
                        ELSE f.thumbnail,
          videoUrl |-> Str(Unescape(f.videoUrl.s)),
          audioUrl |-> JsOr(IF Truthy(audio) THEN Str(Unescape(audio.s)) ELSE audio, Undef)]

\* lines 181 to 204, the tail of the outer try.  x.replace of a value that is
\* not a string is a TypeError.
PostTryBody(f, audio) ==
    IF Truthy(f.videoUrl) /\ ~IsString(f.videoUrl) THEN ResultThrow
    ELSE IF Truthy(f.thumbnail) /\ ~IsString(f.thumbnail) THEN ResultThrow
    ELSE LET v == IF Truthy(f.videoUrl) THEN Str(Unescape(f.videoUrl.s)) ELSE f.videoUrl
             th == IF Truthy(f.thumbnail) THEN Str(Unescape(f.thumbnail.s)) ELSE f.thumbnail
             a == IF Truthy(audio) THEN Str(Unescape(audio.s)) ELSE audio
         IN IF ~Truthy(v) THEN ResultNull
            ELSE [kind |-> "descriptor",
                  title |-> JsOr(f.title, DefaultTitle),
                  author |-> JsOr(f.author, DefaultAuthor),
                  thumbnail |-> th,
                  videoUrl |-> v,
                  audioUrl |-> JsOr(a, Undef)]

\* a mutant of OuterCatch: the exception leaves the function
OuterCatchRethrows(r) == r

\* catch (error) { console.error(...); return null; }
OuterCatch(r) == IF r.kind = "throw" THEN ResultNull ELSE r

(***************************************************************************)
(* The inputs of the extraction: the values and the fragments that bodies  *)
(* are made of.                                                            *)
(***************************************************************************)
UrlMp4 == Http \o <<"a", "/", "v">> \o DotMp4
UrlVideoMp4 == Http \o <<"a", "/">> \o WordVideo \o DotMp4
UrlCoverMp4 == Https \o <<"a", "/">> \o WordCover \o <<"1">> \o DotMp4
UrlPosterMp4 == Http \o <<"a", "/">> \o WordPoster \o DotMp4
UrlUpperMp4 == Http \o <<"a", "/", "V", ".", "M", "P", "4">>
\* http:\/\/a\/v.mp4, as inline script state writes it
UrlEscMp4 == <<"h", "t", "t", "p", ":", BS, "/", BS, "/", "a", BS, "/", "v">> \o DotMp4
\* http://a/v.mp4
UrlU002FMp4 == <<"h", "t", "t", "p", ":">> \o EscSlash \o EscSlash \o <<"a">> \o EscSlash
               \o <<"v">> \o DotMp4
OnlyBackslashes == <<BS, BS>>
UrlM3u8 == Http \o <<"a", "/", "v">> \o DotM3u8
UrlEscM3u8 == <<"h", "t", "t", "p", ":", BS, "/", BS, "/", "a", BS, "/", "v">> \o DotM3u8
UrlCoverM3u8 == Http \o <<"a", "/">> \o WordCover \o DotM3u8
UrlM4a == Http \o <<"a", "/", "s">> \o DotM4a
UrlCoverJpg == Http \o <<"a", "/">> \o WordCover \o DotJpg
\* http:\/\/a\/cover.jpg
UrlEscJpg == <<"h", "t", "t", "p", ":", BS, "/", BS, "/", "a", BS, "/">> \o WordCover \o DotJpg
\* http://a/s.m4a with every slash written as the escape
UrlU002FM4a == <<"h", "t", "t", "p", ":">> \o EscSlash \o EscSlash \o <<"a">> \o EscSlash
               \o <<"s">> \o DotM4a
NoMp4 == <<"a", "b", "c">>
TitleA == <<"A">>
TitleB == <<"B", " ", "-", " ", Kuai, Shou>>

ItemSet ==
    { Meta("og:video", UrlMp4), Meta("og:video", UrlCoverMp4),
      Meta("og:video:url", UrlEscMp4), Meta("og:video", OnlyBackslashes),
      MetaRev("og:video", UrlVideoMp4),
      Meta("og:image", UrlCoverJpg), Meta("og:title", TitleA), Title(TitleB),
      By(<<"u">>), Pair(KeyAuthor, <<"w">>),
      JsonBlock(JsonThrow), JsonBlock(JsonNull), JsonBlock(JsonPrim),
      JsonBlock(JsonObject(Str(UrlVideoMp4), Undef, Undef, Undef)),
      JsonBlock(JsonObject(JsNum, Undef, Undef, Undef)),
      JsonBlock(JsonObject(Str(OnlyBackslashes), Undef, Undef, Undef)),
      JsonBlock(JsonObject(Undef, JsArr, JsNum, Undef)),
      JsonBlock(JsonObject(Str(UrlCoverMp4), Str(UrlCoverJpg), Str(<<"N">>), Str(<<"M">>))),
      JsonBlock(JsonObject(EmptyStr, Undef, Undef, Undef)),
      Quoted(UrlMp4), Quoted(UrlVideoMp4), Quoted(UrlCoverMp4), Quoted(UrlUpperMp4),
      Quoted(UrlM3u8), Quoted(UrlCoverM3u8), Quoted(UrlM4a), Quoted(UrlCoverJpg),
      Pair(KeyVideoUrl, UrlEscMp4), Pair(KeyVideoUrl, NoMp4),
      Pair(KeyPlayUrl, UrlPosterMp4), Pair(KeySrcNoMark, UrlU002FMp4),
      Pair(KeyHlsPlayUrl, UrlEscM3u8), Pair(KeyAudioUrl, UrlU002FM4a),
      Pair(KeyCoverUrl, UrlEscJpg) }

SeqsUpTo(S, n) == UNION {[1..k -> S] : k \in 0..n}

Bodies == SeqsUpTo(ItemSet, MaxItems)

(***************************************************************************)
(* The state.                                                              *)
(***************************************************************************)
VARIABLES
    \* extractVideoInfoFromHtml: its argument, its position, its locals
    html, exPc, title, author, thumbnail, videoUrl, audioUrl,
    \* lastIndex of jsonScriptPattern; the index of the expression a fallback
    \* scan is at and that expression's lastIndex
    jsonLast, scanP, scanLast,
    \* ghosts: the exec calls made by the current scan (saturating), and the
    \* step, fragment and raw text that gave videoUrl its value
    execCount, videoFrom,
    \* what the call returned
    exResult

exVars == <<html, exPc, title, author, thumbnail, videoUrl, audioUrl, jsonLast, scanP,
            scanLast, execCount, videoFrom, exResult>>

NoSource == [step |-> "none", raw |-> Undef]
Source(step, raw) == [step |-> step, raw |-> raw]

\* the state of a call of extractVideoInfoFromHtml(body, url) at its entry
ExEnter(body) ==
    /\ html = body
    /\ exPc = "meta"
    /\ title = EmptyStr
    /\ author = EmptyStr
    /\ thumbnail = EmptyStr
    /\ videoUrl = EmptyStr
    /\ audioUrl = EmptyStr
    /\ jsonLast = 0
    /\ scanP = 1
    /\ scanLast = 0
    /\ execCount = 0
    /\ videoFrom = NoSource
    /\ exResult = NoResult

\* lines 58 to 92
ExMeta ==
    /\ exPc = "meta"
    /\ LET f == MetaFields(html)
       IN /\ title' = f.title
          /\ author' = f.author
          /\ thumbnail' = f.thumbnail
          /\ videoUrl' = f.videoUrl
          /\ videoFrom' = IF Truthy(f.videoUrl) THEN Source("og", f.videoUrl) ELSE NoSource
    /\ exPc' = "json"
    /\ UNCHANGED <<html, audioUrl, jsonLast, scanP, scanLast, execCount, exResult>>

\* lines 94 to 105: one turn of the while loop over the JSON script blocks
ExJson ==
    /\ exPc = "json"
    /\ LET m == Exec(Re("jsonScript", TRUE), html, jsonLast)
       IN IF ~m.found
          THEN /\ exPc' = "audio"
               /\ jsonLast' = m.last
               /\ UNCHANGED <<title, author, thumbnail, videoUrl, videoFrom, exResult>>
          ELSE LET r == InnerCatch(JsonTryBody(Fields(title, author, thumbnail, videoUrl),
                                               html[m.idx].json))
               IN /\ jsonLast' = m.last
                  /\ IF r.thrown
                     THEN /\ exPc' = "done"
                          /\ exResult' = OuterCatch(ResultThrow)
                     ELSE /\ exPc' = "json"
                          /\ exResult' = exResult
                  /\ title' = r.f.title
                  /\ author' = r.f.author
                  /\ thumbnail' = r.f.thumbnail
                  /\ videoUrl' = r.f.videoUrl
                  /\ videoFrom' = IF r.f.videoUrl # videoUrl
                                  THEN Source("json", r.f.videoUrl) ELSE videoFrom
    /\ UNCHANGED <<html, audioUrl, scanP, scanLast, execCount>>

Bump(n) == IF n < MaxExec THEN n + 1 ELSE n

\* a mutant of NewLastIndex: the expression objects are shared, and one that
\* was left by a break keeps the lastIndex it had
KeptLastIndex(prev) == prev

\* the expression literals stand in the body of the function: every call, and
\* every scan, works on new RegExp objects, whose lastIndex is 0 whatever the
\* lastIndex (prev) of the object used before
NewLastIndex(prev) == 0

\* the local a scan assigns
ScanField(step) ==
    CASE step = "audio" -> audioUrl
      [] step \in {"video", "m3u8"} -> videoUrl
      [] step = "img" -> thumbnail

\* lines 117-124, 134-146, 153-162, 170-179: one pattern.exec(html) of a
\* fallback scan with what the loops do on its result.
\*   - past the last expression the for loop is over;
\*   - exec finds nothing: the while loop is over, on to the next expression
\*     (or out of the for loop if the field is set);
\*   - exec finds a candidate: audio, manifest and image take it and break;
\*     video takes it if AcceptVideo holds and otherwise goes round the
\*     while loop again.
ExScan ==
    /\ exPc \in ScanSteps
    /\ LET step == exPc
           pats == ScanPatterns(step)
           Leave(v, th, last) ==
               /\ exPc' = AfterStep(step, v, th)
               /\ scanP' = 1
               /\ scanLast' = NewLastIndex(last)
               /\ execCount' = 0
           Keep == UNCHANGED <<audioUrl, videoUrl, thumbnail, videoFrom>>
       IN IF scanP > Len(pats)
          THEN Leave(videoUrl, thumbnail, scanLast) /\ Keep
          ELSE LET m == Exec(pats[scanP], html, scanLast)
                   found == IF m.found THEN html[m.idx].val ELSE <<>>
                   take == m.found /\ (step = "video" => AcceptVideo(found))
               IN IF ~m.found
                  THEN /\ Keep
                       /\ IF Truthy(ScanField(step))
                          THEN Leave(videoUrl, thumbnail, m.last)
                          ELSE /\ scanP' = scanP + 1
                               /\ scanLast' = 0
                               /\ execCount' = Bump(execCount)
                               /\ exPc' = exPc
                  ELSE IF take
                  THEN /\ audioUrl' = IF step = "audio" THEN Str(found) ELSE audioUrl
                       /\ videoUrl' = IF step \in {"video", "m3u8"} THEN Str(found)
                                      ELSE videoUrl
                       /\ thumbnail' = IF step = "img" THEN Str(found) ELSE thumbnail
                       /\ videoFrom' = IF step \in {"video", "m3u8"}
                                       THEN Source(step, Str(found)) ELSE videoFrom
                       /\ IF Truthy(Str(found))
                          THEN Leave(IF step \in {"video", "m3u8"} THEN Str(found)
                                     ELSE videoUrl,
                                     IF step = "img" THEN Str(found) ELSE thumbnail,
                                     m.last)
                          ELSE /\ scanP' = scanP + 1
                               /\ scanLast' = 0
                               /\ execCount' = Bump(execCount)
                               /\ exPc' = exPc
                  ELSE /\ Keep
                       /\ scanLast' = m.last
                       /\ execCount' = Bump(execCount)
                       /\ UNCHANGED <<scanP, exPc>>
    /\ UNCHANGED <<html, title, author, jsonLast, exResult>>

\* lines 181 to 208: post-processing, the terminal rule and the outer catch
ExPost ==
    /\ exPc = "post"
    /\ exResult' = OuterCatch(PostTryBody(Fields(title, author, thumbnail, videoUrl), audioUrl))
    /\ exPc' = "done"
    /\ UNCHANGED <<html, title, author, thumbnail, videoUrl, audioUrl, jsonLast, scanP,
                   scanLast, execCount, videoFrom>>

(***************************************************************************)
(* fetchWithRedirects.                                                     *)
(*                                                                         *)
(* A URL and a Location header are character sequences.  The upstream is   *)
(* a script: the outcome of the first request, of the second, and so on;   *)
(* its last entry is served again for every further request, so a script   *)
(* ending in a redirect is an endless chain of redirects.  An outcome is   *)
(* a response, or the rejection of fetch (the transport failed).           *)
(***************************************************************************)
\* largest maxRedirects argument tried
MaxRedirectsArg == 3
\* longest upstream script
MaxChain == 3

\* function fetchWithRedirects(url, maxRedirects = 5)
DefaultMaxRedirects == 5

USER_AGENTS == {"iPhone Safari", "Android Chrome", "Windows Chrome"}

UrlK1 == Http \o <<"k", "/", "1">>
UrlK2 == Http \o <<"k", "/", "2">>
UrlE1 == Http \o <<"e", "/", "1">>
RelPath2 == <<"/", "2">>
NoLocation == <<>>

\* the error values fetch, text() and read() reject with; isError is
\* `error instanceof Error`
ErrValue(isError, message) == [isError |-> isError, message |-> message]
NoError == ErrValue(FALSE, "")
FetchFailed == ErrValue(TRUE, "fetch failed")
Terminated == ErrValue(TRUE, "terminated")
ThrownNonError == ErrValue(FALSE, "")
\* new Error("Failed to fetch URL")
NoResponseError == ErrValue(TRUE, "Failed to fetch URL")

Response(status, location) == [kind |-> "response", status |-> status, location |-> location]
Rejection == [kind |-> "reject", status |-> 0, location |-> NoLocation]
NoResponse == [kind |-> "none", status |-> 0, location |-> NoLocation]

Outcomes ==
    { Response(200, NoLocation), Response(404, NoLocation), Response(302, NoLocation),
      Response(302, UrlK2), Response(301, UrlE1), Response(307, RelPath2),
      Response(200, UrlK2), Rejection }

Chains == UNION {[1..k -> Outcomes] : k \in 1..MaxChain}

\* the outcome of the n-th request
Served(chain, n) == chain[IF n <= Len(chain) THEN n ELSE Len(chain)]

\* response.status >= 300 && response.status < 400, with a location header
IsRedirect(r) == r.kind = "response" /\ r.status >= 300 /\ r.status < 400 /\ r.location # NoLocation

\* the origin scheme://host of an absolute URL
RECURSIVE HostEnd(_, _)
HostEnd(u, i) == IF i > Len(u) \/ u[i] = "/" THEN i - 1 ELSE HostEnd(u, i + 1)

Origin(u) == SubSeq(u, 1, HostEnd(u, SchemeLen(u) + 1))

\* location.startsWith("http") ? location : new URL(location, currentUrl).href
\* for a Location that is an absolute URL or an absolute path
ResolveLocation(location, current) ==
    IF StartsWith(location, <<"h", "t", "t", "p">>) THEN location
    ELSE Origin(current) \o location

\* getHeaders(referer): a user agent drawn from the pool, and the referer
GetHeaders(ua, referer) ==
    [userAgent |-> ua,
     referer |-> IF referer # <<>> THEN referer ELSE Https \o <<"www.kuaishou.com", "/">>]
NoHeaders == [userAgent |-> "", referer |-> <<>>]

VARIABLES
    \* fetchWithRedirects: its position, its arguments and locals
    fwPc, maxRedirects, currentUrl, i, response,
    \* the error it threw
    fwError,
    \* the upstream script, the number of requests issued, the number in
    \* flight, the headers of the last request, the response of the last
    \* request that obtained one (ghost)
    chain, requests, inFlight, sentHeaders, lastObtained

fwVars == <<fwPc, maxRedirects, currentUrl, i, response, fwError, chain, requests, inFlight,
            sentHeaders, lastObtained>>

\* a mutant of LoopContinues: one iteration too many
LoopContinuesInclusive(k, max) == k <= max

\* a mutant of LoopContinues: one iteration too few
LoopContinuesShort(k, max) == k < max - 1

\* the loop condition  i < maxRedirects
LoopContinues(k, max) == k < max

\* line 34: fetch(currentUrl, {headers: getHeaders(currentUrl), redirect: "manual"})
\* is issued and awaited
FwIssue ==
    /\ fwPc = "loop"
    /\ LoopContinues(i, maxRedirects)
    /\ fwPc' = "await"
    /\ requests' = requests + 1
    /\ inFlight' = inFlight + 1
    /\ \E ua \in USER_AGENTS : sentHeaders' = GetHeaders(ua, currentUrl)
    /\ UNCHANGED <<maxRedirects, currentUrl, i, response, fwError, chain, lastObtained>>

\* lines 34 to 46: the awaited fetch settles.  A rejection leaves the
\* function; a redirect with a location goes round the loop; anything else
\* breaks out of it and, response being set, is returned (lines 49 to 53).
FwSettle ==
    /\ fwPc = "await"
    /\ inFlight' = inFlight - 1
    /\ LET r == Served(chain, requests)
       IN IF r.kind = "reject"
          THEN /\ fwPc' = "raised"
               /\ \E e \in {FetchFailed, ThrownNonError} : fwError' = e
               /\ UNCHANGED <<currentUrl, i, response, lastObtained>>
          ELSE /\ response' = r
               /\ lastObtained' = r
               /\ fwError' = fwError
               /\ IF IsRedirect(r)
                  THEN /\ currentUrl' = ResolveLocation(r.location, currentUrl)
                       /\ i' = i + 1
                       /\ fwPc' = "loop"
                  ELSE /\ fwPc' = "returned"
                       /\ UNCHANGED <<currentUrl, i>>
    /\ UNCHANGED <<maxRedirects, chain, requests, sentHeaders>>

\* lines 33 and 49 to 53: the loop condition fails; without a response the
\* function throws, otherwise it returns the response it holds
FwExit ==
    /\ fwPc = "loop"
    /\ ~LoopContinues(i, maxRedirects)
    /\ IF response.kind = "none"
       THEN fwPc' = "raised" /\ fwError' = NoResponseError
       ELSE fwPc' = "returned" /\ fwError' = fwError
    /\ UNCHANGED <<maxRedirects, currentUrl, i, response, chain, requests, inFlight,
                   sentHeaders, lastObtained>>

\* fetchWithRedirects(url, max) is called
FwCall(url, max) ==
    /\ fwPc' = "loop"
    /\ maxRedirects' = max
    /\ currentUrl' = url
    /\ i' = 0
    /\ response' = NoResponse
    /\ UNCHANGED <<fwError, chain, requests, inFlight, sentHeaders, lastObtained>>

(***************************************************************************)
(* POST /api/fetch-video.                                                  *)
(***************************************************************************)
PlatformKuaishou == <<"k", "u", "a", "i", "s", "h", "o", "u", ".", "c", "o", "m">>
PlatformKwai == <<"k", "w", "a", "i", ".", "c", "o", "m">>

\* request bodies: the url member
ReqKuaishou == Str(Https \o PlatformKuaishou \o <<"/", "1">>)
ReqKwai == Str(Http \o PlatformKwai \o <<"/", "1">>)
ReqMention == Str(Http \o <<"e", "/">> \o PlatformKuaishou)
ReqOther == Str(UrlE1)
ReqNotUrl == Str(PlatformKuaishou)
RequestUrls == {ReqKuaishou, ReqKwai, ReqMention, ReqOther, ReqNotUrl, JsNum, Undef}

\* z.string().url(): new URL(s) succeeds; on the inputs of the model, s has
\* a scheme and a host
IsUrl(s) == SchemeLen(s) > 0 /\ Len(s) > SchemeLen(s)

\* a mutant of SafeParse: every string passes
SafeParseAnyString(url) == IsString(url)

\* fetchVideoRequestSchema.safeParse(req.body).success
SafeParse(url) ==
    /\ IsString(url)
    /\ IsUrl(url.s)
    /\ (Includes(url.s, PlatformKuaishou) \/ Includes(url.s, PlatformKwai))

MsgInvalidUrl == "Please enter a valid Kuaishou URL"
MsgNotFound == "Could not find video on this page. Please check the URL and try again."
MsgGeneric == "An error occurred while fetching the video"

\* error instanceof Error ? error.message : "An error occurred while fetching the video"
CatchMessage(e) == IF e.isError THEN e.message ELSE MsgGeneric

NoRes == [status |-> 0, success |-> FALSE, hasError |-> FALSE, error |-> "",
          hasData |-> FALSE, data |-> NoResult]
\* res.status(status).json({success: false, error})
ErrorRes(status, error) == [NoRes EXCEPT !.status = status, !.hasError = TRUE, !.error = error]
\* res.json({success: true, data}): the status code stays at its default 200
SuccessRes(data) == [NoRes EXCEPT !.status = 200, !.success = TRUE, !.hasData = TRUE,
                                  !.data = data]

\* the bodies fetchResponse.text() yields in the model of the handler
PageBodies ==
    { <<>>,
      <<Meta("og:video", UrlMp4)>>,
      <<Meta("og:video", OnlyBackslashes)>>,
      <<Title(TitleB), Quoted(UrlCoverMp4)>>,
      <<Quoted(UrlCoverMp4), Quoted(UrlVideoMp4)>>,
      <<JsonBlock(JsonThrow), JsonBlock(JsonObject(Str(UrlVideoMp4), Undef, Undef, Undef))>>,
      <<JsonBlock(JsonObject(JsNum, Undef, Undef, Undef))>>,
      <<Pair(KeyVideoUrl, UrlEscMp4)>>,
      <<Pair(KeyVideoUrl, NoMp4)>>,
      <<Quoted(UrlM3u8), Pair(KeyAudioUrl, UrlM4a)>> }

\* the upstream scripts in the model of the handler
PageChains ==
    { <<Response(200, NoLocation)>>, <<Response(404, NoLocation)>>, <<Rejection>>,
      <<Response(302, UrlK2), Response(200, NoLocation)>>,
      <<Response(307, RelPath2), Rejection>>,
      <<Response(302, UrlK2)>> }

VARIABLES
    \* the handler's position, req.body.url, the response sent and the
    \* number of responses sent
    fvPc, reqUrl, fvRes, fvSent

fvVars == <<fvPc, reqUrl, fvRes, fvSent>>

\* extractVideoInfoFromHtml(body, url) is called
ExCall(body) ==
    /\ html' = body
    /\ exPc' = "meta"
    /\ title' = EmptyStr
    /\ author' = EmptyStr
    /\ thumbnail' = EmptyStr
    /\ videoUrl' = EmptyStr
    /\ audioUrl' = EmptyStr
    /\ jsonLast' = NewLastIndex(jsonLast)
    /\ scanP' = 1
    /\ scanLast' = NewLastIndex(scanLast)
    /\ execCount' = 0
    /\ videoFrom' = NoSource
    /\ exResult' = NoResult

FvSend(r) ==
    /\ fvRes' = r
    /\ fvSent' = fvSent + 1
    /\ fvPc' = "responded"

\* lines 218 to 230: validation; a body that fails it is answered 400, a
\* valid one starts fetchWithRedirects(url)
FvValidate ==
    /\ fvPc = "start"
    /\ IF ~SafeParse(reqUrl)
       THEN /\ FvSend(ErrorRes(400, MsgInvalidUrl))
            /\ UNCHANGED fwVars
       ELSE /\ fvPc' = "fetching"
            /\ FwCall(reqUrl.s, DefaultMaxRedirects)
            /\ UNCHANGED <<fvRes, fvSent>>
    /\ UNCHANGED reqUrl
    /\ UNCHANGED exVars

\* lines 230 and 249 to 255: fetchWithRedirects threw
FvFetchFailed ==
    /\ fvPc = "fetching"
    /\ fwPc = "raised"
    /\ FvSend(ErrorRes(500, CatchMessage(fwError)))
    /\ UNCHANGED <<reqUrl, fwVars, exVars>>

\* lines 231 to 233: await fetchResponse.text(); the read of the body fails,
\* or yields the page, on which extractVideoInfoFromHtml is called
FvText ==
    /\ fvPc = "fetching"
    /\ fwPc = "returned"
    /\ \/ /\ \E e \in {Terminated, ThrownNonError} : FvSend(ErrorRes(500, CatchMessage(e)))
          /\ UNCHANGED exVars
       \/ /\ \E body \in PageBodies : ExCall(body)
          /\ fvPc' = "extracting"
          /\ UNCHANGED <<fvRes, fvSent>>
    /\ UNCHANGED <<reqUrl, fwVars>>

\* lines 235 to 248: the result of the extraction is answered
FvRespond ==
    /\ fvPc = "extracting"
    /\ exPc = "done"
    /\ IF exResult.kind = "descriptor"
       THEN FvSend(SuccessRes(exResult))
       ELSE IF exResult.kind = "null"
       THEN FvSend(ErrorRes(404, MsgNotFound))
       ELSE FvSend(ErrorRes(500, CatchMessage(ErrValue(TRUE, "TypeError"))))
    /\ UNCHANGED <<reqUrl, fwVars, exVars>>

(***************************************************************************)
(* GET /api/download.                                                      *)
(*                                                                         *)
(* The upstream of a relay is a script too: whether fetch rejects, the     *)
(* status, the content-length header ("" when there is none), whether the  *)
(* response has a body, the chunks of the body, and the number of the      *)
(* read() that rejects (0 when none does).                                 *)
(***************************************************************************)
\* most chunks in a media body
MaxChunks == 3

Chunks == {"a", "b"}
MediaStatuses == {200, 206, 403, 404, 500}
UpLength == "1000"
JsonLength == "json-length"

\* the upstream of a fetch that rejects: no response at all
Rejected ==
    [reject |-> TRUE, status |-> 0, contentLength |-> "", hasBody |-> FALSE,
     chunks |-> <<>>, failAt |-> 0]

Upstreams ==
    [reject : {FALSE}, status : MediaStatuses, contentLength : {"", UpLength},
     hasBody : BOOLEAN, chunks : SeqsUpTo(Chunks, MaxChunks), failAt : 0..(MaxChunks + 1)]
    \cup {Rejected}

\* a script says nothing about a body the response does not have, nor about
\* reads past the end of the body
UpstreamScripts ==
    {u \in Upstreams : /\ (~u.hasBody => u.chunks = <<>> /\ u.failAt = 0)
                       /\ u.failAt <= Len(u.chunks) + 1}

\* req.query.url and req.query.type
QueryUrls == {Str(UrlMp4), EmptyStr, Undef, JsArr}
QueryTypes == {"audio", "video", ""}

\* fetchResponse.ok
Ok(status) == status >= 200 /\ status <= 299

NoDisposition == <<>>

\* the response object of Express
NewRes ==
    [statusCode |-> 200, contentType |-> "", contentDisposition |-> NoDisposition,
     contentLength |-> "", headersSent |-> FALSE, hasJson |-> FALSE, error |-> "",
     written |-> <<>>, ended |-> 0]

\* res.setHeader(name, value)
SetContentType(res, v) == [res EXCEPT !.contentType = v]
SetContentDisposition(res, v) == [res EXCEPT !.contentDisposition = v]
SetContentLength(res, v) == [res EXCEPT !.contentLength = v]

\* res.status(code).json({error}): json keeps a Content-Type that is set and
\* sets application/json otherwise; send sets the Content-Length of the JSON
\* text, writes the head and the body and ends the response
ResJson(res, code, error) ==
    [res EXCEPT !.statusCode = code,
                !.contentType = IF res.contentType = "" THEN "application/json"
                                ELSE res.contentType,
                !.contentLength = JsonLength,
                !.headersSent = TRUE,
                !.hasJson = TRUE,
                !.error = error,
                !.ended = res.ended + 1]

\* a mutant of ResWrite: the chunk is lost
ResWriteDrops(res, value) == [res EXCEPT !.headersSent = TRUE]

\* res.write(value): the head goes out with the first chunk
ResWrite(res, value) ==
    [res EXCEPT !.headersSent = TRUE, !.written = Append(res.written, value)]

\* res.end()
ResEnd(res) == [res EXCEPT !.headersSent = TRUE, !.ended = res.ended + 1]

\* downloadType, filename and contentType of lines 267 to 269
DownloadType(type) == IF type = "audio" THEN "audio" ELSE "video"
Filename(type) ==
    IF DownloadType(type) = "audio" THEN "kuaishou-audio.m4a" ELSE "kuaishou-video.mp4"
ContentType(type) == IF DownloadType(type) = "audio" THEN "audio/mp4" ELSE "video/mp4"
\* `attachment; filename="${filename}"`
Disposition(type) == <<"attachment; filename=", Filename(type)>>

\* lines 279 to 285: the media headers
MediaHeaders(res, type, up) ==
    LET r1 == SetContentType(res, ContentType(type))
        r2 == SetContentDisposition(r1, Disposition(type))
    IN IF up.contentLength # "" THEN SetContentLength(r2, up.contentLength) ELSE r2

\* a mutant of UpstreamErrorRes: the failure is masked as a generic 500
UpstreamErrorMasked(res, up) == ResJson(res, 500, "Failed to download file")

\* line 276: res.status(fetchResponse.status).json({error: "Failed to download file"})
UpstreamErrorRes(res, up) == ResJson(res, up.status, "Failed to download file")

\* a mutant of PumpCatch: the error response is sent whatever has been sent
PumpCatchAlwaysJson(res) == ResJson(res, 500, "Stream error")

\* lines 300 to 307: the catch of pump
PumpCatch(res) == IF ~res.headersSent THEN ResJson(res, 500, "Stream error") ELSE ResEnd(res)

\* chunks the caller's connection holds unsent before res.write returns false
SinkCapacity == 1

VARIABLES
    \* the handler's position, req.query, the upstream script, the response,
    \* the number of read() calls settled
    dlPc, query, dlUp, dlRes, reads,
    \* the caller: whether it has closed its connection, and the number of
    \* written chunks its connection has taken
    callerGone, accepted,
    \* ghost: the body of the upstream response is open (obtained, and not yet
    \* read to its end, failed or cancelled)
    upOpen

dlVars == <<dlPc, query, dlUp, dlRes, reads, callerGone, accepted, upOpen>>

\* lines 261 to 273: the url parameter is checked and the fetch is issued
DlValidate ==
    /\ dlPc = "start"
    /\ IF ~Truthy(query.url) \/ ~IsString(query.url)
       THEN /\ dlRes' = ResJson(dlRes, 400, "Missing video URL")
            /\ dlPc' = "done"
       ELSE /\ dlPc' = "fetching"
            /\ dlRes' = dlRes
    /\ UNCHANGED <<query, dlUp, reads, callerGone, accepted, upOpen>>

\* lines 271 to 290 and 311 to 315: the fetch settles
DlFetched ==
    /\ dlPc = "fetching"
    /\ IF dlUp.reject
       THEN /\ dlPc' = "done"
            /\ dlRes' = IF ~dlRes.headersSent THEN ResJson(dlRes, 500, "Download failed")
                        ELSE dlRes
       ELSE IF ~Ok(dlUp.status)
       THEN /\ dlPc' = "done"
            /\ dlRes' = UpstreamErrorRes(dlRes, dlUp)
       ELSE IF ~dlUp.hasBody
       THEN /\ dlPc' = "done"
            /\ dlRes' = ResJson(MediaHeaders(dlRes, query.type, dlUp), 500,
                                "Failed to read response body")
       ELSE /\ dlPc' = "pumping"
            /\ dlRes' = MediaHeaders(dlRes, query.type, dlUp)
    /\ upOpen' = (~dlUp.reject /\ dlUp.hasBody)
    /\ UNCHANGED <<query, dlUp, reads, callerGone, accepted>>

\* lines 292 to 307: one await reader.read() of pump with what follows it
DlRead ==
    /\ dlPc = "pumping"
    /\ reads' = reads + 1
    /\ IF dlUp.failAt = reads + 1
       THEN /\ dlPc' = "done"
            /\ dlRes' = PumpCatch(dlRes)
            /\ upOpen' = FALSE
       ELSE IF reads >= Len(dlUp.chunks)
       THEN /\ dlPc' = "done"
            /\ dlRes' = ResEnd(dlRes)
            /\ upOpen' = FALSE
       ELSE /\ dlPc' = "pumping"
            /\ dlRes' = ResWrite(dlRes, dlUp.chunks[reads + 1])
            /\ upOpen' = upOpen
    /\ UNCHANGED <<query, dlUp, callerGone, accepted>>

\* the caller closes its connection while the request is being served.  The
\* handler registers no listener for it and a write to a closed connection
\* does not throw, so nothing in the handler changes.
DlDisconnect ==
    /\ dlPc \in {"fetching", "pumping"}
    /\ ~callerGone
    /\ callerGone' = TRUE
    /\ UNCHANGED <<dlPc, query, dlUp, dlRes, reads, accepted, upOpen>>

\* the caller's connection takes the next chunk that res.write was given
DlDrain ==
    /\ ~callerGone
    /\ accepted < Len(dlRes.written)
    /\ accepted' = accepted + 1
    /\ UNCHANGED <<dlPc, query, dlUp, dlRes, reads, callerGone, upOpen>>

(***************************************************************************)
(* Calls of extractVideoInfoFromHtml in a row.  The function is synchronous *)
(* and Node runs one call at a time, so the calls of several requests       *)
(* follow one another.                                                      *)
(***************************************************************************)
\* most calls in a row
MaxCalls == 3

\* the bodies of the calls
RepeatBodies ==
    { <<>>,
      <<Quoted(UrlM4a), Quoted(UrlMp4), Quoted(UrlCoverJpg)>>,
      <<Quoted(UrlMp4), Quoted(UrlM4a)>>,
      <<Quoted(UrlCoverMp4), Quoted(UrlVideoMp4)>>,
      <<JsonBlock(JsonThrow), JsonBlock(JsonObject(Str(UrlVideoMp4), Undef, Undef, Undef))>>,
      <<Meta("og:video", UrlMp4), JsonBlock(JsonObject(Undef, JsArr, JsNum, Undef))>>,
      <<Title(TitleB), Meta("og:title", TitleA), Quoted(UrlM3u8)>>,
      <<Pair(KeySrcNoMark, UrlU002FMp4), Pair(KeyCoverUrl, UrlCoverJpg)>> }

VARIABLES
    \* ghost: the calls that returned, the body and the result of each
    history

rpVars == <<history>>

\* a call has returned and the next one is made
ExAgain ==
    /\ exPc = "done"
    /\ Len(history) + 1 < MaxCalls
    /\ history' = Append(history, [body |-> html, result |-> exResult])
    /\ \E body \in RepeatBodies : ExCall(body)

(***************************************************************************)
(* The specifications.                                                     *)
(***************************************************************************)
vars == <<exVars, fwVars, fvVars, dlVars, rpVars>>

RpIdle == history = <<>>

\* no call of extractVideoInfoFromHtml is under way
ExIdle ==
    /\ html = <<>>
    /\ exPc = "idle"
    /\ title = EmptyStr
    /\ author = EmptyStr
    /\ thumbnail = EmptyStr
    /\ videoUrl = EmptyStr
    /\ audioUrl = EmptyStr
    /\ jsonLast = 0
    /\ scanP = 1
    /\ scanLast = 0
    /\ execCount = 0
    /\ videoFrom = NoSource
    /\ exResult = NoResult

\* fetchWithRedirects at its entry, or not called (pc "idle"), against the
\* upstream script c
FwAt(pc, url, max, c) ==
    /\ fwPc = pc
    /\ maxRedirects = max
    /\ currentUrl = url
    /\ i = 0
    /\ response = NoResponse
    /\ fwError = NoError
    /\ chain = c
    /\ requests = 0
    /\ inFlight = 0
    /\ sentHeaders = NoHeaders
    /\ lastObtained = NoResponse

FvIdle == fvPc = "idle" /\ reqUrl = Undef /\ fvRes = NoRes /\ fvSent = 0

DlIdle ==
    /\ dlPc = "idle"
    /\ query = [url |-> Undef, type |-> ""]
    /\ dlUp = Rejected
    /\ dlRes = NewRes
    /\ reads = 0
    /\ callerGone = FALSE
    /\ accepted = 0
    /\ upOpen = FALSE

\* extractVideoInfoFromHtml on every body
InitExtract ==
    /\ \E body \in Bodies : ExEnter(body)
    /\ FwAt("idle", <<>>, 0, <<Rejection>>)
    /\ FvIdle
    /\ DlIdle
    /\ RpIdle

NextExtract ==
    \/ ExMeta /\ UNCHANGED <<fwVars, fvVars, dlVars, rpVars>>
    \/ ExJson /\ UNCHANGED <<fwVars, fvVars, dlVars, rpVars>>
    \/ ExScan /\ UNCHANGED <<fwVars, fvVars, dlVars, rpVars>>
    \/ ExPost /\ UNCHANGED <<fwVars, fvVars, dlVars, rpVars>>

SpecExtract == InitExtract /\ [][NextExtract]_vars

\* fetchWithRedirects(UrlK1, max) for every max and every upstream script
InitFetch ==
    /\ \E max \in (-1)..MaxRedirectsArg, c \in Chains : FwAt("loop", UrlK1, max, c)
    /\ ExIdle
    /\ FvIdle
    /\ DlIdle
    /\ RpIdle

NextFetch ==
    \/ FwIssue /\ UNCHANGED <<exVars, fvVars, dlVars, rpVars>>
    \/ FwSettle /\ UNCHANGED <<exVars, fvVars, dlVars, rpVars>>
    \/ FwExit /\ UNCHANGED <<exVars, fvVars, dlVars, rpVars>>

SpecFetch == InitFetch /\ [][NextFetch]_vars

\* one request to POST /api/fetch-video
InitResolve ==
    /\ fvPc = "start"
    /\ reqUrl \in RequestUrls
    /\ fvRes = NoRes
    /\ fvSent = 0
    /\ \E c \in PageChains : FwAt("idle", <<>>, 0, c)
    /\ ExIdle
    /\ DlIdle
    /\ RpIdle

NextResolve ==
    \/ FvValidate /\ UNCHANGED <<dlVars, rpVars>>
    \/ FvFetchFailed /\ UNCHANGED <<dlVars, rpVars>>
    \/ FvText /\ UNCHANGED <<dlVars, rpVars>>
    \/ FvRespond /\ UNCHANGED <<dlVars, rpVars>>
    \/ FwIssue /\ UNCHANGED <<exVars, fvVars, dlVars, rpVars>>
    \/ FwSettle /\ UNCHANGED <<exVars, fvVars, dlVars, rpVars>>
    \/ FwExit /\ UNCHANGED <<exVars, fvVars, dlVars, rpVars>>
    \/ ExMeta /\ UNCHANGED <<fwVars, fvVars, dlVars, rpVars>>
    \/ ExJson /\ UNCHANGED <<fwVars, fvVars, dlVars, rpVars>>
    \/ ExScan /\ UNCHANGED <<fwVars, fvVars, dlVars, rpVars>>
    \/ ExPost /\ UNCHANGED <<fwVars, fvVars, dlVars, rpVars>>

SpecResolve == InitResolve /\ [][NextResolve]_vars

\* one request to GET /api/download
InitRelay ==
    /\ dlPc = "start"
    /\ query \in [url : QueryUrls, type : QueryTypes]
    /\ dlUp \in UpstreamScripts
    /\ dlRes = NewRes
    /\ reads = 0
    /\ callerGone = FALSE
    /\ accepted = 0
    /\ upOpen = FALSE
    /\ ExIdle
    /\ FwAt("idle", <<>>, 0, <<Rejection>>)
    /\ FvIdle
    /\ RpIdle

NextRelay ==
    \/ DlValidate /\ UNCHANGED <<exVars, fwVars, fvVars, rpVars>>
    \/ DlFetched /\ UNCHANGED <<exVars, fwVars, fvVars, rpVars>>
    \/ DlRead /\ UNCHANGED <<exVars, fwVars, fvVars, rpVars>>
    \/ DlDisconnect /\ UNCHANGED <<exVars, fwVars, fvVars, rpVars>>
    \/ DlDrain /\ UNCHANGED <<exVars, fwVars, fvVars, rpVars>>

SpecRelay == InitRelay /\ [][NextRelay]_vars

\* the inputs of two requests served together: a POST /api/fetch-video and a
\* GET /api/download
TogetherUrls == {ReqKuaishou, ReqOther}
TogetherChains ==
    { <<Response(200, NoLocation)>>, <<Rejection>>,
      <<Response(302, UrlK2), Response(200, NoLocation)>>,
      <<Response(302, UrlK2)>> }
TogetherUpstreams ==
    { Rejected,
      [reject |-> FALSE, status |-> 404, contentLength |-> "", hasBody |-> TRUE,
       chunks |-> <<"a">>, failAt |-> 0],
      [reject |-> FALSE, status |-> 200, contentLength |-> UpLength, hasBody |-> TRUE,
       chunks |-> <<"a", "b">>, failAt |-> 0],
      [reject |-> FALSE, status |-> 200, contentLength |-> "", hasBody |-> TRUE,
       chunks |-> <<"a", "b">>, failAt |-> 2] }

\* Node runs the handlers on one thread: a handler is left only at an await.
\* From the continuation of fetchResponse.text() (line 231) to the response
\* (lines 235 to 248) the POST handler has no await: extractVideoInfoFromHtml
\* is synchronous, and while it runs no other continuation does.
ThreadHeld == fvPc = "extracting"

InitTogether ==
    /\ fvPc = "start"
    /\ reqUrl \in TogetherUrls
    /\ fvRes = NoRes
    /\ fvSent = 0
    /\ \E c \in TogetherChains : FwAt("idle", <<>>, 0, c)
    /\ ExIdle
    /\ dlPc = "start"
    /\ query = [url |-> Str(UrlMp4), type |-> "video"]
    /\ dlUp \in TogetherUpstreams
    /\ dlRes = NewRes
    /\ reads = 0
    /\ callerGone = FALSE
    /\ accepted = 0
    /\ upOpen = FALSE
    /\ RpIdle

NextTogether ==
    \/ FvValidate /\ UNCHANGED <<dlVars, rpVars>>
    \/ FvFetchFailed /\ UNCHANGED <<dlVars, rpVars>>
    \/ FvText /\ UNCHANGED <<dlVars, rpVars>>
    \/ FvRespond /\ UNCHANGED <<dlVars, rpVars>>
    \/ FwIssue /\ UNCHANGED <<exVars, fvVars, dlVars, rpVars>>
    \/ FwSettle /\ UNCHANGED <<exVars, fvVars, dlVars, rpVars>>
    \/ FwExit /\ UNCHANGED <<exVars, fvVars, dlVars, rpVars>>
    \/ ExMeta /\ UNCHANGED <<fwVars, fvVars, dlVars, rpVars>>
    \/ ExJson /\ UNCHANGED <<fwVars, fvVars, dlVars, rpVars>>
    \/ ExScan /\ UNCHANGED <<fwVars, fvVars, dlVars, rpVars>>
    \/ ExPost /\ UNCHANGED <<fwVars, fvVars, dlVars, rpVars>>
    \/ ~ThreadHeld /\ DlValidate /\ UNCHANGED <<exVars, fwVars, fvVars, rpVars>>
    \/ ~ThreadHeld /\ DlFetched /\ UNCHANGED <<exVars, fwVars, fvVars, rpVars>>
    \/ ~ThreadHeld /\ DlRead /\ UNCHANGED <<exVars, fwVars, fvVars, rpVars>>
    \/ ~ThreadHeld /\ DlDrain /\ UNCHANGED <<exVars, fwVars, fvVars, rpVars>>
    \/ DlDisconnect /\ UNCHANGED <<exVars, fwVars, fvVars, rpVars>>

SpecTogether == InitTogether /\ [][NextTogether]_vars

\* up to MaxCalls calls of extractVideoInfoFromHtml, one after the other
InitRepeat ==
    /\ \E body \in RepeatBodies : ExEnter(body)
    /\ RpIdle
    /\ FwAt("idle", <<>>, 0, <<Rejection>>)
    /\ FvIdle
    /\ DlIdle

NextRepeat ==
    \/ ExMeta /\ UNCHANGED <<fwVars, fvVars, dlVars, rpVars>>
    \/ ExJson /\ UNCHANGED <<fwVars, fvVars, dlVars, rpVars>>
    \/ ExScan /\ UNCHANGED <<fwVars, fvVars, dlVars, rpVars>>
    \/ ExPost /\ UNCHANGED <<fwVars, fvVars, dlVars, rpVars>>
    \/ ExAgain /\ UNCHANGED <<fwVars, fvVars, dlVars>>

SpecRepeat == InitRepeat /\ [][NextRepeat]_vars

(***************************************************************************)
(* The claims.                                                             *)
(***************************************************************************)
HasCoverOrPoster(s) == Includes(s, WordCover) \/ Includes(s, WordPoster)

\* C1: extractVideoInfoFromHtml returns null or a descriptor whose videoUrl
\* is a string that is not empty after the unescaping; no descriptor with an
\* empty or non-string videoUrl is returned, also when the only candidate is
\* made of backslashes or is a contentUrl that is not a string.
C1_NullOrVideoUrl ==
    /\ exPc = "done" => exResult.kind \in {"null", "descriptor"}
    /\ exResult.kind = "descriptor" =>
          /\ IsString(exResult.videoUrl)
          /\ exResult.videoUrl.s # <<>>
          /\ IsString(videoFrom.raw)
          /\ exResult.videoUrl.s = Unescape(videoFrom.raw.s)
    /\ (exPc = "done" /\ ~IsString(videoFrom.raw)) => exResult.kind = "null"
    /\ (exPc = "done" /\ IsString(videoFrom.raw) /\ Unescape(videoFrom.raw.s) = <<>>) =>
          exResult.kind = "null"

\* a call whose only video candidate, a run of backslashes, unescaped to the
\* empty string and ended in null
C1_Witness ==
    /\ exPc = "done"
    /\ videoFrom.raw = Str(OnlyBackslashes)
    /\ exResult.kind = "null"

\* C2 (as claimed): in every fallback scan a candidate, rejected or accepted,
\* lets the scan advance: a turn of the while loop that stays in the same scan
\* at the same expression has moved that expression's lastIndex forward.
C2_ScanAdvances ==
    [][(exPc \in ScanSteps /\ exPc' = exPc /\ scanP' = scanP) => scanLast' > scanLast]_vars

\* C3: extractVideoInfoFromHtml never raises: an embedded JSON block that
\* fails to parse, or parses to null or to a value that is no object, changes
\* nothing and the scan of the blocks goes on; any other failure ends in null.
C3_NeverRaises ==
    [][/\ exResult'.kind # "throw"
       /\ (exPc = "json" /\ jsonLast' > jsonLast
           /\ html[jsonLast'].json.kind \in {"throw", "null", "prim"}) =>
             /\ exPc' = "json"
             /\ <<title, author, thumbnail, videoUrl>>' = <<title, author, thumbnail, videoUrl>>
       /\ (exPc = "post" /\ Truthy(thumbnail) /\ ~IsString(thumbnail)) =>
             exResult'.kind = "null"]_vars

\* a call that met a block JSON.parse rejects, went on to the next block,
\* and whose TypeError in the post-processing ended in null
C3_Witness ==
    /\ exPc = "done"
    /\ Len(html) = 2
    /\ html[1].json.kind = "throw"
    /\ Truthy(thumbnail) /\ ~IsString(thumbnail)
    /\ exResult.kind = "null"

RedirectsThenFinal(c) ==
    /\ \A n \in 1..(Len(c) - 1) : IsRedirect(c[n])
    /\ c[Len(c)].kind = "response"
    /\ ~IsRedirect(c[Len(c)])

C5_FollowsUpToMax ==
    (fwPc \in {"returned", "raised"} /\ maxRedirects >= 1 /\ RedirectsThenFinal(chain)
     /\ Len(chain) - 1 <= maxRedirects) =>
        (fwPc = "returned" /\ response = chain[Len(chain)])

\* C5 (amended): a chain of k redirects that ends in a response that is no
\* redirect, 0 <= k <= maxRedirects - 1, is followed to that response.
C5_FollowsBelowMax ==
    (fwPc \in {"returned", "raised"} /\ RedirectsThenFinal(chain)
     /\ Len(chain) - 1 <= maxRedirects - 1) =>
        (fwPc = "returned" /\ response = chain[Len(chain)])

\* two redirects followed to the final response with maxRedirects = 3
C5_Witness ==
    /\ fwPc = "returned"
    /\ maxRedirects = 3
    /\ Len(chain) = 3
    /\ RedirectsThenFinal(chain)
    /\ response = chain[3]
    /\ requests = 3

\* the content of the og:video tag the cascade reads, <<>> when there is none
OgVideoContent(body) ==
    IF OgMatch(body, {"og:video", "og:video:url"}) = 0 THEN <<>>
    ELSE body[OgMatch(body, {"og:video", "og:video:url"})].val

\* C6 (as claimed): a body with a well-formed og:video tag of content V (V
\* unescapes to a URL with a scheme) and no structured data that supplies a
\* video URL yields a descriptor whose videoUrl is V unescaped, whatever else
\* the body holds.
C6_OgVideoWins ==
    (/\ exPc = "done"
     /\ SchemeLen(Unescape(OgVideoContent(html))) > 0
     /\ \A n \in 1..Len(html) : ~Truthy(html[n].json.contentUrl)) =>
        /\ exResult.kind = "descriptor"
        /\ exResult.videoUrl = Str(Unescape(OgVideoContent(html)))

\* C7 (as claimed): a URL that contains cover or poster is never the videoUrl
\* of a descriptor, whichever step met it.
C7_NeverCoverOrPoster ==
    exResult.kind = "descriptor" => ~HasCoverOrPoster(videoFrom.raw.s)

\* C7 (amended): the .mp4 fallback (the quoted .mp4 expressions and the
\* videoUrl / playUrl / srcNoMark expressions) never selects a candidate
\* whose matched text contains cover or poster.
C7_FallbackSkipsCoverOrPoster ==
    videoFrom.step = "video" => ~HasCoverOrPoster(videoFrom.raw.s)

\* the fallback met the quoted cover URL first, passed it over and selected
\* the .mp4 URL behind it
C7_Witness ==
    /\ exPc = "done"
    /\ Len(html) = 2
    /\ html[1] = Quoted(UrlCoverMp4)
    /\ videoFrom.step = "video"
    /\ exResult.kind = "descriptor"

ValidQuery == Truthy(query.url) /\ IsString(query.url)

MediaTypes == {"video/mp4", "audio/mp4"}

\* C8: when the upstream of a relay answers a status that is no success, the
\* caller gets that status with a JSON error, no chunk of the upstream, and
\* none of the media headers.
C8_UpstreamStatusRelayed ==
    (/\ dlPc \in {"pumping", "done"}
     /\ ValidQuery
     /\ ~dlUp.reject
     /\ (dlUp.status < 200 \/ dlUp.status > 299)) =>
        /\ dlPc = "done"
        /\ dlRes.statusCode = dlUp.status
        /\ dlRes.hasJson
        /\ dlRes.error # ""
        /\ dlRes.written = <<>>
        /\ dlRes.ended = 1
        /\ reads = 0
        /\ dlRes.contentType \notin MediaTypes
        /\ dlRes.contentDisposition = NoDisposition
        /\ dlRes.contentLength # UpLength

\* a 404 of an upstream that had a content-length and a body
C8_Witness ==
    /\ dlPc = "done"
    /\ ValidQuery
    /\ dlUp.status = 404
    /\ dlUp.contentLength = UpLength
    /\ Len(dlUp.chunks) = 2
    /\ dlRes.statusCode = 404

IsPrefix(s, u) == Len(s) <= Len(u) /\ SubSeq(u, 1, Len(s)) = s

\* C9: on a success of the upstream whose reads all succeed the relay writes
\* the chunks of the upstream, in order, none lost and none twice, ends the
\* response only after the upstream reported done, and sets Content-Length
\* to the value of the upstream exactly when the upstream gave one.
C9_RelayExact ==
    (/\ dlPc \in {"pumping", "done"}
     /\ ValidQuery
     /\ ~dlUp.reject
     /\ dlUp.status >= 200 /\ dlUp.status <= 299
     /\ dlUp.hasBody
     /\ dlUp.failAt = 0) =>
        /\ IsPrefix(dlRes.written, dlUp.chunks)
        /\ dlRes.ended <= 1
        /\ ~dlRes.hasJson
        /\ dlRes.ended = 1 => (dlRes.written = dlUp.chunks /\ reads = Len(dlUp.chunks) + 1)
        /\ dlPc = "done" => (dlRes.ended = 1 /\ dlRes.statusCode = 200)
        /\ dlPc = "pumping" => Len(dlRes.written) = reads
        /\ dlRes.contentLength = dlUp.contentLength
        /\ dlRes.contentType = ContentType(query.type)
        /\ dlRes.contentDisposition = Disposition(query.type)

\* three chunks relayed and the content-length of the upstream passed on
C9_Witness ==
    /\ dlPc = "done"
    /\ ValidQuery
    /\ dlUp.failAt = 0
    /\ dlUp.chunks = <<"a", "b", "a">>
    /\ dlRes.written = <<"a", "b", "a">>
    /\ dlRes.contentLength = UpLength
    /\ dlRes.ended = 1

\* the request bodies the schema accepts
AcceptedUrls == {ReqKuaishou, ReqKwai, ReqMention}

Host(u) == SubSeq(u, SchemeLen(u) + 1, HostEnd(u, SchemeLen(u) + 1))

\* the host is a platform domain or a subdomain of one
HostIsPlatform(u) ==
    \E p \in {PlatformKuaishou, PlatformKwai} : Host(u) = p \/ EndsWith(Host(u), <<".">> \o p)

PlatformUrl(v) == IsString(v) /\ IsUrl(v.s) /\ HostIsPlatform(v.s)

\* C11 (as claimed): POST /api/fetch-video issues requests only for a
\* well-formed absolute URL whose host is a platform host; a URL of another
\* host that has the platform name in its path is answered 400 with no request
\* issued.
C11_OnlyPlatformHosts ==
    /\ requests >= 1 => PlatformUrl(reqUrl)
    /\ (fvPc = "responded" /\ ~PlatformUrl(reqUrl)) => (fvRes.status = 400 /\ requests = 0)

\* C12: extraction keeps no state between calls: every call starts with empty
\* fields and with every scanning position at the start, and two calls on the
\* same body, whatever calls lie between them, return the same result field
\* by field.
C12_SameBodySameResult ==
    /\ \A a, b \in 1..Len(history) :
          history[a].body = history[b].body => history[a].result = history[b].result
    /\ exPc = "done" =>
          \A a \in 1..Len(history) : history[a].body = html => history[a].result = exResult
    /\ exPc = "meta" =>
          /\ jsonLast = 0 /\ scanLast = 0 /\ scanP = 1
          /\ <<title, author, thumbnail, videoUrl, audioUrl>>
                = <<EmptyStr, EmptyStr, EmptyStr, EmptyStr, EmptyStr>>

\* a body extracted to a descriptor, then another body, then the first body
\* again with the same descriptor
C12_Witness ==
    /\ exPc = "done"
    /\ Len(history) = 2
    /\ history[1].body = html
    /\ history[2].body # html
    /\ exResult.kind = "descriptor"
    /\ Truthy(exResult.audioUrl)
    /\ history[1].result = exResult

\* the content of the og:title tag the cascade reads, trimmed; <<>> when
\* there is none
OgTitleContent(body) ==
    IF OgMatch(body, {"og:title"}) = 0 THEN <<>>
    ELSE Trim(body[OgMatch(body, {"og:title"})].val)

\* the text of the first <title> tag without its suffix; <<>> when there is
\* none
TitleTagText(body) ==
    IF FirstMatch(body, IsTitleTag) = 0 THEN <<>>
    ELSE StripTitle(body[FirstMatch(body, IsTitleTag)].val)

Plain(s) == StripBackslashes(ReplaceEscSlash(s))

NoEscapes(s) == ~Includes(s, <<BS>>) /\ ~Includes(s, EscSlash)

\* C14: in a descriptor videoUrl, thumbnail and audioUrl (when present) are
\* the matched texts with the escaped slashes replaced and the backslashes
\* removed, so they hold neither; and the terminal rule looks at the videoUrl
\* after the unescaping.
C14_Unescaped ==
    /\ exResult.kind = "descriptor" =>
          /\ IsString(videoUrl) /\ IsString(thumbnail) /\ IsString(audioUrl)
          /\ exResult.videoUrl = Str(Plain(videoUrl.s))
          /\ NoEscapes(exResult.videoUrl.s)
          /\ exResult.thumbnail = Str(Plain(thumbnail.s))
          /\ NoEscapes(exResult.thumbnail.s)
          /\ IF Plain(audioUrl.s) # <<>>
             THEN exResult.audioUrl = Str(Plain(audioUrl.s)) /\ NoEscapes(exResult.audioUrl.s)
             ELSE exResult.audioUrl = Undef
          /\ Plain(videoUrl.s) # <<>>
    /\ (exPc = "done" /\ IsString(videoUrl) /\ Plain(videoUrl.s) = <<>>) =>
          exResult.kind = "null"

\* a video URL written with escaped slashes and a thumbnail written with
\* backslashes, both returned plain
C14_Witness ==
    /\ exPc = "done"
    /\ videoUrl = Str(UrlU002FMp4)
    /\ thumbnail = Str(UrlEscJpg)
    /\ exResult.kind = "descriptor"
    /\ exResult.videoUrl = Str(UrlMp4)
    /\ exResult.thumbnail = Str(UrlCoverJpg)

\* C15 (as claimed): a call in which some step resolved a video URL that is
\* not empty after the unescaping returns a descriptor, whatever the other
\* fields hold.
C15_ResolvedVideoGivesDescriptor ==
    (exPc = "done" /\ IsString(videoUrl) /\ Plain(videoUrl.s) # <<>>) =>
        exResult.kind = "descriptor"

\* the manifest URL the streaming-manifest fallback would take: the first
\* quoted .m3u8 literal, else the value of the first hlsPlayUrl key; <<>> when
\* the body has neither
Manifest(body) ==
    LET IsQuotedM3u8(it) == QuotedUrlWith(it, DotM3u8)
        IsHlsKey(it) == KeyStyle(it, KeyHlsPlayUrl)
    IN IF FirstMatch(body, IsQuotedM3u8) # 0 THEN body[FirstMatch(body, IsQuotedM3u8)].val
       ELSE IF FirstMatch(body, IsHlsKey) # 0 THEN body[FirstMatch(body, IsHlsKey)].val
       ELSE <<>>

\* the body gives no video URL to the og:video step, the structured-data
\* step or the .mp4 fallback, and no structured-data thumbnail that is not a
\* string
NoEarlierVideo(body) ==
    /\ OgMatch(body, {"og:video", "og:video:url"}) = 0
    /\ \A n \in 1..Len(body) :
          /\ ~Truthy(body[n].json.contentUrl)
          /\ IsString(body[n].json.thumbnailUrl) \/ ~Truthy(body[n].json.thumbnailUrl)
          /\ \A p \in 1..Len(videoUrlPatterns) :
                ReMatches(videoUrlPatterns[p].re, body[n]) => ~AcceptVideo(body[n].val)

\* C16 (as claimed): a call on a body that gives no earlier video URL and has
\* a quoted .m3u8 URL or an hlsPlayUrl key returns a descriptor whose videoUrl
\* is that manifest URL, unescaped: every step of the call moves it forward
\* (to the next step of the cascade, the next expression of a scan or a later
\* position in the body), and the result it ends with is that descriptor.
C16_ManifestFallback ==
    /\ [](NoEarlierVideo(html) /\ Plain(Manifest(html)) # <<>> /\ exPc = "done" =>
             /\ exResult.kind = "descriptor"
             /\ exResult.videoUrl = Str(Plain(Manifest(html))))
    /\ [][NoEarlierVideo(html) /\ Plain(Manifest(html)) # <<>> =>
             \/ exPc' # exPc
             \/ scanP' > scanP
             \/ scanLast' > scanLast
             \/ jsonLast' > jsonLast]_vars

\* C17 (as claimed): when the .mp4 fallback selects the video URL and the
\* body has an acceptable quoted .mp4 URL that contains the word video, the
\* selected URL contains the word video, wherever the URLs stand in the body.
C17_PrefersVideoUrls ==
    (/\ videoFrom.step = "video"
     /\ \E n \in 1..Len(html) : /\ QuotedUrlWith(html[n], DotMp4)
                                /\ AcceptVideo(html[n].val)
                                /\ Includes(Lower(html[n].val), WordVideo)) =>
        Includes(Lower(videoFrom.raw.s), WordVideo)

\* C18: a turn of the structured-data scan changes no field that is already
\* set, and gives a field that is still empty the value of the block when the
\* block has one; so the first block that supplies a value wins.
C18_GapFillOnly ==
    [][exPc = "json" =>
         /\ Truthy(title) => title' = title
         /\ Truthy(author) => author' = author
         /\ Truthy(thumbnail) => thumbnail' = thumbnail
         /\ Truthy(videoUrl) => videoUrl' = videoUrl
         /\ (jsonLast' > jsonLast /\ html[jsonLast'].json.kind = "obj") =>
               LET j == html[jsonLast'].json
               IN /\ (~Truthy(title) /\ Truthy(j.name)) => title' = j.name
                  /\ (~Truthy(author) /\ Truthy(j.authorName)) => author' = j.authorName
                  /\ (~Truthy(thumbnail) /\ Truthy(j.thumbnailUrl)) =>
                        thumbnail' = j.thumbnailUrl
                  /\ (~Truthy(videoUrl) /\ Truthy(j.contentUrl)) => videoUrl' = j.contentUrl]_vars

\* two blocks with a contentUrl each: the video URL is the one of the first,
\* the thumbnail, which the first did not have, the one of the second
C18_Witness ==
    /\ exPc = "done"
    /\ Len(html) = 2
    /\ html[1].json.contentUrl = Str(UrlVideoMp4)
    /\ html[2].json.contentUrl = Str(UrlCoverMp4)
    /\ exResult.kind = "descriptor"
    /\ exResult.videoUrl = Str(UrlVideoMp4)
    /\ exResult.thumbnail = Str(UrlCoverJpg)

\* the contentUrl of the first structured-data block that has one
FirstContentUrl(body) ==
    LET Has(it) == it.kind = "json" /\ it.json.kind = "obj" /\ Truthy(it.json.contentUrl)
    IN IF FirstMatch(body, Has) = 0 THEN Undef ELSE body[FirstMatch(body, Has)].json.contentUrl

\* a block that changes nothing: JSON.parse fails on it, or it parses to null,
\* to a primitive or to an object without any of the four keys
BadBlock(it) ==
    /\ it.kind = "json"
    /\ \/ it.json.kind \in {"throw", "null", "prim"}
       \/ /\ it.json.kind = "obj"
          /\ ~Truthy(it.json.contentUrl) /\ ~Truthy(it.json.thumbnailUrl)
          /\ ~Truthy(it.json.name) /\ ~Truthy(it.json.authorName)

\* C19: a block that does not parse, or parses to a value without usable
\* keys, changes no field and does not end the scan of the blocks; the blocks
\* behind it are scanned: when og:video gave no video URL, the video URL after
\* the scan is the contentUrl of the first block that has one, whatever blocks
\* stand before it.
C19_BlocksIndependent ==
    /\ [][(exPc = "json" /\ jsonLast' > jsonLast /\ BadBlock(html[jsonLast'])) =>
             /\ exPc' = "json"
             /\ <<title, author, thumbnail, videoUrl>>' = <<title, author, thumbnail, videoUrl>>]_vars
    /\ []((exPc \notin {"idle", "meta", "json"} /\ OgVideoContent(html) = <<>>
           /\ Truthy(FirstContentUrl(html))) =>
             videoFrom = Source("json", FirstContentUrl(html)))
    /\ []((exPc \notin {"idle", "meta", "json"}) => jsonLast = 0)

\* a block JSON.parse rejects, and behind it a block whose contentUrl became
\* the video URL of the descriptor
C19_Witness ==
    /\ exPc = "done"
    /\ Len(html) = 2
    /\ html[1].json.kind = "throw"
    /\ html[2].json.contentUrl = Str(UrlVideoMp4)
    /\ exResult.kind = "descriptor"
    /\ exResult.videoUrl = Str(UrlVideoMp4)

ReadFailed ==
    /\ dlPc = "done"
    /\ ~dlUp.reject
    /\ Ok(dlUp.status)
    /\ dlUp.hasBody
    /\ dlUp.failAt >= 1
    /\ reads = dlUp.failAt

\* C21: when a read of the upstream body fails during the relay, the outcome
\* depends only on whether the head of the response has gone out.  If nothing
\* has been sent the caller gets one 500 response with the JSON error "Stream
\* error" and no chunk; if chunks have been sent the response is ended with no
\* error payload and its status stays 200.  In both cases the chunks written
\* are exactly those read before the failure and the response is ended once.
C21_ReadFailureOutcome ==
    ReadFailed =>
        /\ dlRes.written = SubSeq(dlUp.chunks, 1, dlUp.failAt - 1)
        /\ dlRes.ended = 1
        /\ dlUp.failAt = 1 =>
              /\ dlRes.statusCode = 500
              /\ dlRes.hasJson
              /\ dlRes.error = "Stream error"
        /\ dlUp.failAt > 1 =>
              /\ dlRes.statusCode = 200
              /\ ~dlRes.hasJson
              /\ dlRes.error = ""

\* the second read fails after one chunk was written
C21_Witness ==
    /\ ReadFailed
    /\ dlUp.failAt = 2
    /\ Len(dlRes.written) = 1
    /\ dlRes.ended = 1
    /\ ~dlRes.hasJson

\* C22: on every exit path of the relay (upstream non-success status, missing
\* body, normal end of stream, read failure, caller gone in mid-stream) the
\* upstream body is closed or cancelled and the caller's response is ended:
\* when the handler is done the upstream body is not open and the response
\* has been ended once, and no read of the upstream body is made after the
\* caller has closed its connection.
C22_ReleasedOnEveryExit ==
    /\ [](dlPc = "done" => ~upOpen /\ dlRes.ended = 1)
    /\ [][callerGone => reads' = reads]_vars

\* the chunks given to res.write that the caller's connection has not taken
Buffered == Len(dlRes.written) - accepted

\* res.write returned false: the sink signals that it is full
SinkFull == Buffered >= SinkCapacity

\* C23: the relay buffers a bounded number of chunks: the chunks read from
\* upstream and not yet taken by the caller's connection never exceed the
\* capacity of the sink by more than the chunk in hand, whatever the length
\* of the body and however slow the caller, because the relay makes no read
\* while the sink signals that it is full.
C23_BoundedBuffering ==
    /\ [](Buffered <= SinkCapacity + 1)
    /\ [][SinkFull => reads' = reads]_vars

\* a step that brings the POST request nearer to its response
ResolveAdvances ==
    \/ fvPc' # fvPc
    \/ fwPc' # fwPc
    \/ requests' > requests
    \/ exPc' # exPc
    \/ scanP' > scanP
    \/ scanLast' > scanLast
    \/ jsonLast' > jsonLast

\* a step that brings the GET request nearer to the end of its response
RelayAdvances == dlPc' # dlPc \/ reads' > reads

\* C24: every request to either endpoint ends with exactly one response and
\* is never retried: never a second response, a response when the handler has
\* ended, no outbound request after a failed one, no read after a failed
\* read, and never zero responses: as long as a request has no response,
\* every step of its handler brings it nearer to one.
C24_ExactlyOneResponse ==
    /\ [](fvSent <= 1 /\ dlRes.ended <= 1)
    /\ []((fvPc = "responded" => fvSent = 1) /\ (dlPc = "done" => dlRes.ended = 1))
    /\ [][fwPc = "raised" \/ fvSent = 1 => requests' = requests]_vars
    /\ [][dlPc = "done" => reads' = reads /\ dlRes' = dlRes]_vars
    /\ [][fvSent = 0 /\ <<exVars, fwVars, fvVars>>' # <<exVars, fwVars, fvVars>> => ResolveAdvances]_vars
    /\ [][dlRes.ended = 0 /\ <<dlPc, dlRes, reads>>' # <<dlPc, dlRes, reads>> => RelayAdvances]_vars

\* a GET request is being served
RelayPending == dlPc \in {"start", "fetching", "pumping"}

\* C25: requests served together do not interfere: whatever the interleaving
\* of a resolve and a relay request at their suspension points, a step of one
\* request changes nothing of the other, and a relay waiting at a suspension
\* point is resumed as it would be alone: the resolve request never keeps the
\* thread with a step that brings it no nearer to its own response.
C25_NoInterference ==
    /\ [][dlVars' # dlVars => UNCHANGED <<exVars, fwVars, fvVars>>]_vars
    /\ [][<<exVars, fwVars, fvVars>>' # <<exVars, fwVars, fvVars>> => UNCHANGED dlVars]_vars
    /\ [][RelayPending /\ ThreadHeld /\ exVars' # exVars => ResolveAdvances]_vars

====
